---- MODULE Spec2Model ----
(***************************************************************************)
(* Screening filter and price-history cache of the stock scanner:          *)
(* scanner_standalone.py (generate_final_report) and scanner_ai.py         *)
(* (run_scanner_final), which share the cache file stock_cache.pkl.        *)
(* morita_screening_final.py (check_stock on a thread pool, main) is       *)
(* modelled apart, in PoolSpec.                                            *)
(*                                                                         *)
(* Prices and volumes are integer-valued doubles.  Factors 1.10 and 1.15   *)
(* are written in hundredths; the rounding of the double product is        *)
(* modelled by GeProduct / LeProduct.                                      *)
(***************************************************************************)
EXTENDS Integers, Sequences, FiniteSets, TLC

VARIABLES
    prog,         \* the program of the current run: "standalone", "ai" or "none"
    pc,           \* position of the program
    file,         \* stock_cache.pkl on disk
    cache,        \* the in-memory dict: stock_data_cache / all_history
    idx,          \* position of the loop over codes (1-based)
    stage1_list,  \* records of the first stage, in append order
    stage2_list,  \* records of the second stage, in append order
    clock,        \* datetime.now(), in seconds
    log,          \* per ticker of this run: the provider call made and whether the body raised
    saves,        \* completed pickle.dump calls of this run
    reported,     \* the report of this run has been produced
    ext,          \* an externally fallible step (report file, LLM, mail) has begun in this run
    runs,         \* runs started so far
    df_in,        \* the series handed to the filter when it is exercised alone
    universe,     \* data_jpx.csv as the current run found it: "present" or "missing"
    out,          \* what the current run has last printed about its outcome
    futures,      \* morita_screening_final: state of the future of each code
    results,      \* morita_screening_final: the codes collected, in append order
    error_counter \* morita_screening_final: futures that came back with an error

vars == <<prog, pc, file, cache, idx, stage1_list, stage2_list, clock, log,
          saves, reported, ext, runs, df_in, universe, out,
          futures, results, error_counter>>

\* the state of the scanners, which morita_screening_final.py leaves alone
scanner_vars == <<file, cache, stage1_list, stage2_list, clock, log,
                  saves, reported, ext, runs, df_in, universe, out>>

\* the state of morita_screening_final.py, which the scanners leave alone
pool_vars == <<futures, results, error_counter>>

-----------------------------------------------------------------------------
(* Program constants *)

WINDOW_DAYS == 25
RANGE_FACTOR_S1 == 115      \* 1.15, in hundredths
RANGE_FACTOR_S2 == 110      \* 1.10, in hundredths
UP_FROM_LOW_RATE == 110     \* 1.10, in hundredths
VOL_MULT_S1_TODAY == 200    \* 2.0, in hundredths
VOL_MULT_S1_YEST == 150     \* 1.5, in hundredths
VOL_MULT_S2 == 200          \* 2.0, in hundredths
PRICE_LIMIT_YEN == 200000
LOT_SIZE == 100             \* current_price * 100

FRESH_SECONDS == 3600       \* cache validity of the standalone scanner
TAIL_ROWS == 60             \* .tail(60) of the incremental update
DAY_SECONDS == 86400        \* .date() truncates a timestamp to its day

MAX_WORKERS == 5            \* morita_screening_final.py: threads of the executor
PRICE_LIMIT == 2000         \* morita_screening_final.py: highest close accepted

(* Bounds of the model *)

MaxExtra == 2               \* longest series: WINDOW_DAYS + MaxExtra bars
NumTickers == 2             \* size of the ticker universe
MaxRuns == 2                \* runs of the programs, one after the other
FetchSecs == 1              \* seconds a provider call takes
StartClock == 82800         \* 23:00:00 of day 0
NumPoolCodes == 6           \* size of the universe of morita_screening_final.py

-----------------------------------------------------------------------------
(* Helpers on sequences *)

Range(s) == {s[i] : i \in 1..Len(s)}

Col(w, col) == [i \in 1..Len(w) |-> w[i][col]]

SeqMax(s) == CHOOSE x \in Range(s) : \A y \in Range(s) : y <= x

SeqMin(s) == CHOOSE x \in Range(s) : \A y \in Range(s) : x <= y

RECURSIVE SeqSum(_)
SeqSum(s) == IF s = <<>> THEN 0 ELSE s[1] + SeqSum(Tail(s))

\* s.iloc[-n:]
LastN(s, n) == IF Len(s) <= n THEN s ELSE SubSeq(s, Len(s) - n + 1, Len(s))

\* s.iloc[:-n]
DropLast(s, n) == IF Len(s) <= n THEN <<>> ELSE SubSeq(s, 1, Len(s) - n)

-----------------------------------------------------------------------------
(* Double arithmetic of the threshold products.                            *)
(* The double nearest 1.10 lies 0.4 ulp above 1.10 and the double nearest  *)
(* 1.15 lies 0.4 ulp below 1.15 (ulp = 2^-52); 1.5 and 2.0 are exact.      *)
(* For an integer low, low * factor differs from the decimal product by    *)
(* 0.4 * low * 2^-52, which survives rounding to nearest exactly when it   *)
(* exceeds half an ulp of the product.  Against an integer x the sign of   *)
(* x - low * factor can differ from the decimal one only at a tie.         *)

RECURSIVE Pow2Floor(_)
Pow2Floor(m) == IF m < 2 THEN 1 ELSE 2 * Pow2Floor(m \div 2)

DoubleErr(f) == IF f = 110 THEN 1 ELSE IF f = 115 THEN -1 ELSE 0

\* the rounded product low * f differs from the integer f * low / 100
Inexact(low, f) ==
    /\ (f * low) % 100 = 0
    /\ DoubleErr(f) # 0
    /\ 4 * low > 5 * Pow2Floor((f * low) \div 100)

\* x <= low * f
LeProduct(x, low, f) ==
    IF 100 * x = f * low
    THEN ~(Inexact(low, f) /\ DoubleErr(f) < 0)
    ELSE 100 * x < f * low

\* x >= low * f
GeProduct(x, low, f) ==
    IF 100 * x = f * low
    THEN ~(Inexact(low, f) /\ DoubleErr(f) > 0)
    ELSE 100 * x > f * low

\* v >= (vsum / n) * f : the mean of n integer volumes times 1.5 or 2.0.
\* The quotient and the product round, yet against an integer v the
\* comparison agrees with the exact one (at a tie the product rounds to v).
GeMeanTimes(v, vsum, n, f) == 100 * n * v >= f * vsum

-----------------------------------------------------------------------------
(* The filter (v1.11 logic) *)

df_window(df) == LastN(df, WINDOW_DAYS)

low_window(df) == SeqMin(Col(df_window(df), "l"))

current_price(df) == df_window(df)[Len(df_window(df))].c

vol_sum(df) == SeqSum(Col(df_window(df), "v"))

vol_today(df) == df_window(df)[Len(df_window(df))].v

vol_yesterday(df) == df_window(df)[Len(df_window(df)) - 1].v

\* the slice of the second stage used in the first
is_range_s1_slice1(df) ==
    LeProduct(SeqMax(DropLast(Col(df_window(df), "c"), 1)),
              low_window(df), RANGE_FACTOR_S1)

\* the first three closes dropped instead of the last three
is_range_s1_head(df) ==
    LeProduct(SeqMax(SubSeq(Col(df_window(df), "c"), 4, Len(df_window(df)))),
              low_window(df), RANGE_FACTOR_S1)

is_range_s1(df) ==
    LeProduct(SeqMax(DropLast(Col(df_window(df), "c"), 3)),
              low_window(df), RANGE_FACTOR_S1)

up_from_low(df) == GeProduct(current_price(df), low_window(df), UP_FROM_LOW_RATE)

high_vol_s1(df) ==
    /\ GeMeanTimes(vol_today(df), vol_sum(df), Len(df_window(df)), VOL_MULT_S1_TODAY)
    /\ GeMeanTimes(vol_yesterday(df), vol_sum(df), Len(df_window(df)), VOL_MULT_S1_YEST)

price_ok(df) == current_price(df) * LOT_SIZE <= PRICE_LIMIT_YEN

stage1_hit(df) == is_range_s1(df) /\ up_from_low(df) /\ high_vol_s1(df) /\ price_ok(df)

is_range_s2(df) ==
    LeProduct(SeqMax(DropLast(Col(df_window(df), "c"), 1)),
              low_window(df), RANGE_FACTOR_S2)

high_vol_s2(df) ==
    /\ GeMeanTimes(vol_today(df), vol_sum(df), Len(df_window(df)), VOL_MULT_S2)
    /\ GeMeanTimes(vol_yesterday(df), vol_sum(df), Len(df_window(df)), VOL_MULT_S2)

stage2_hit(df) == is_range_s2(df) /\ high_vol_s2(df)

\* the length check against WINDOW_DAYS alone
enough_bars_window(df) == ~(Len(df) < WINDOW_DAYS)

\* if len(df) < (WINDOW_DAYS + 1): continue
enough_bars(df) == ~(Len(df) < WINDOW_DAYS + 1)

\* every bar carries the columns the filter reads
well_formed(df) == \A i \in 1..Len(df) : {"o", "l", "c", "v"} \subseteq DOMAIN df[i]

open_today(df) == df_window(df)[Len(df_window(df))].o

\* the lesser of the two prices taken for the conservative limit
target1_min(df) ==
    IF 97 * current_price(df) >= 100 * open_today(df)
    THEN 100 * open_today(df) ELSE 97 * current_price(df)

\* max(current_price * 0.97, df_window['Open'].iloc[-1]), in hundredths.
\* The product is a rounded double, within 2^-53 of its size of the decimal
\* value: the order against another price can differ only at a tie.
target1(df) ==
    IF 97 * current_price(df) >= 100 * open_today(df)
    THEN 97 * current_price(df) ELSE 100 * open_today(df)

\* (low_window + current_price) / 2, in hundredths: exact for integer prices
target2(df) == 50 * (low_window(df) + current_price(df))

\* the record of a match; the limit prices are kept as computed, before
\* round(., 1) shortens them for the report
item(code, df, p, s2) ==
    [code |-> code, close |-> current_price(df),
     target1 |-> target1(df), target2 |-> target2(df),
     level |-> IF p = "ai" THEN "none" ELSE IF s2 THEN "stage2" ELSE "stage1"]

\* the body raises while it computes on df (a missing column)
compute_raises(df) == enough_bars(df) /\ ~well_formed(df)

\* a first-stage record is appended for df
emits_s1(df) == enough_bars(df) /\ well_formed(df) /\ stage1_hit(df)

\* a second-stage record is appended for df
emits_s2(df) == emits_s1(df) /\ stage2_hit(df)

\* the first-stage append placed in an else branch
stage1_after_else(code, df, p) ==
    IF emits_s1(df) /\ ~stage2_hit(df) THEN Append(stage1_list, item(code, df, p, FALSE))
    ELSE stage1_list

stage1_after(code, df, p) ==
    IF emits_s1(df) THEN Append(stage1_list, item(code, df, p, stage2_hit(df)))
    ELSE stage1_list

stage2_after(code, df, p) ==
    IF emits_s2(df) THEN Append(stage2_list, item(code, df, p, TRUE))
    ELSE stage2_list

-----------------------------------------------------------------------------
(* Series the provider can return *)

Lows == {100, 1818}

Floor110(L) == (L * 110) \div 100
Floor115(L) == (L * 115) \div 100

\* one bar of the series may leave the base level: a higher close or a lower low
Specials(L) ==
    {[c |-> x, l |-> L] :
        x \in {L, Floor110(L), Floor110(L) + 1, Floor115(L), Floor115(L) + 1}}
    \cup {[c |-> L, l |-> L - 10]}

Positions(n) == {1, n - WINDOW_DAYS + 1, n - 3, n - 2, n - 1} \cap (1..(n - 1))

TodayCloses(L) == IF L = 100 THEN {100, 109, 110, 111, 120} ELSE {1999, 2000, 2001}

\* <<vol_yesterday, vol_today>>
VolPairs == {<<100, 100>>, <<300, 500>>, <<200, 500>>, <<230, 220>>,
             <<230, 219>>, <<300, 2400>>, <<299, 2400>>}

MkSeries(n, L, pos, sp, ct, vols) ==
    [i \in 1..n |->
        IF i = n THEN [o |-> L, l |-> L, c |-> ct, v |-> vols[2]]
        ELSE [o |-> L,
              l |-> IF i = pos THEN sp.l ELSE L,
              c |-> IF i = pos THEN sp.c ELSE L,
              v |-> IF i = n - 1 THEN vols[1] ELSE 100]]

\* today's bar opens at the base level or at its close
OpenKinds == {"base", "close"}

WithOpen(df, kind) ==
    [df EXCEPT ![Len(df)].o = IF kind = "close" THEN df[Len(df)].c ELSE @]

Family ==
    UNION {
        {WithOpen(MkSeries(n, L, pos, sp, ct, vols), kind) :
            pos \in Positions(n), sp \in Specials(L),
            ct \in TodayCloses(L), vols \in VolPairs, kind \in OpenKinds} :
        n \in WINDOW_DAYS..(WINDOW_DAYS + MaxExtra), L \in Lows}

\* what yf.Ticker(code).history(period='40d') can hold: a second-stage hit,
\* a first-stage hit, a series without the Open and Low columns
Pool(base) ==
    CASE base = "S2" -> MkSeries(WINDOW_DAYS + 1, 100, 1, [c |-> 100, l |-> 100], 111, <<300, 500>>)
      [] base = "S1" -> MkSeries(WINDOW_DAYS + 1, 100, 1, [c |-> 100, l |-> 100], 111, <<200, 500>>)
      [] base = "BAD" -> [i \in 1..(WINDOW_DAYS + 1) |-> [c |-> 100, v |-> 100]]
      [] OTHER -> <<>>

\* the series the provider may hold for a code
Market(code) == IF code % 2 = 1 THEN {"S2"} ELSE {"S1", "BAD"}

\* the bar yf.download(code, start=...) returns for a new day
NewBar == [o |-> 100, l |-> 100, c |-> 120, v |-> 900]

-----------------------------------------------------------------------------
(* Data frames and cache entries.                                          *)
(* A frame is the rows of a provider series (base), less the rows tail()   *)
(* dropped at the front (drop), plus the rows appended since (extra).      *)
(* An entry of the standalone scanner is the pair (frame, timestamp); an   *)
(* entry of the AI scanner is the bare frame, and stamp then records the   *)
(* time of the write, whose day is the date of the frame's last row.       *)

Frame(base) == [base |-> base, drop |-> 0, extra |-> <<>>]

EmptyFrame == Frame("EMPTY")

Bars(fr) ==
    LET all == Pool(fr.base) \o fr.extra
    IN  IF fr.drop >= Len(all) THEN <<>> ELSE SubSeq(all, fr.drop + 1, Len(all))

\* pd.concat([df, new_data]).tail(60)
ConcatTail(fr, rows) ==
    LET n == Len(Bars(fr)) + Len(rows)
    IN  [fr EXCEPT !.extra = fr.extra \o rows,
                   !.drop = fr.drop + (IF n > TAIL_ROWS THEN n - TAIL_ROWS ELSE 0)]

NoEntry == [shape |-> "none"]
PairEntry(fr, t) == [shape |-> "pair", df |-> fr, stamp |-> t]
BareEntry(fr, t) == [shape |-> "bare", df |-> fr, stamp |-> t]

Codes == 1..NumTickers

EmptyCache == [c \in Codes |-> NoEntry]

DateOf(t) == t \div DAY_SECONDS

NoLog == [c \in Codes |-> [call |-> "pending", err |-> FALSE]]

\* morita_screening_final.py: the codes of tse_prime_codes.csv, in file order
PoolCodes == 1..NumPoolCodes

NoFutures == [c \in PoolCodes |-> "unsubmitted"]

PoolErrors == {"empty", "columns", "short", "short_nan", "price", "api"}

NoErrors == [e \in PoolErrors |-> 0]

-----------------------------------------------------------------------------
(* The programs *)

Programs == {"standalone", "ai"}

Ended == {"idle", "done", "failed", "aborted", "killed"}

\* time that passes between the end of a run and the start of the next
Gaps ==
    IF runs = 0 THEN {0}
    ELSE {1, FRESH_SECONDS - 2, FRESH_SECONDS - 1, FRESH_SECONDS}

Init ==
    /\ prog = "none"
    /\ pc = "idle"
    /\ file = [kind |-> "absent"]
    /\ cache = EmptyCache
    /\ idx = 1
    /\ stage1_list = <<>>
    /\ stage2_list = <<>>
    /\ clock = StartClock
    /\ log = NoLog
    /\ saves = 0
    /\ reported = FALSE
    /\ ext = FALSE
    /\ runs = 0
    /\ df_in = <<>>
    /\ universe = "present"
    /\ out = "none"
    /\ futures = NoFutures
    /\ results = <<>>
    /\ error_counter = NoErrors

\* pickle.load raises on the file
load_raises(p) == p = "ai" /\ file.kind = "corrupt"

\* the dict after the load
loaded == IF file.kind = "ok" THEN file.map ELSE EmptyCache

\* the check of the universe file left out: the run goes on
universe_missing_ignored(u) == FALSE

\* if not os.path.exists(jpx_csv)
universe_missing(u) == u = "missing"

\* a program starts: the universe file is looked for; if it is there the
\* codes are read and the cache file loaded, else the error is printed and
\* the function returns
StartRun ==
    /\ pc \in Ended
    /\ runs < MaxRuns
    /\ \E p \in Programs, u \in {"present", "missing"} :
        /\ prog' = p
        /\ universe' = u
        /\ IF universe_missing(u)
           THEN pc' = "failed" /\ out' = "error" /\ cache' = EmptyCache
           ELSE /\ pc' = IF load_raises(p) THEN "aborted" ELSE "scan"
                /\ out' = "start"
                /\ cache' = loaded
    /\ runs' = runs + 1
    /\ idx' = 1
    /\ stage1_list' = <<>>
    /\ stage2_list' = <<>>
    /\ log' = NoLog
    /\ saves' = 0
    /\ reported' = FALSE
    /\ ext' = FALSE
    /\ \E gap \in Gaps : clock' = clock + gap
    /\ UNCHANGED <<file, df_in, pool_vars>>

\* the except clause of the loop body: nothing is appended, the loop goes on
\* no except clause: the exception leaves the loop and the program
SkipAborts(code, call, newcache, newclock) ==
    /\ log' = [log EXCEPT ![code] = [call |-> call, err |-> TRUE]]
    /\ cache' = newcache
    /\ clock' = newclock
    /\ pc' = "aborted"
    /\ UNCHANGED <<idx, stage1_list, stage2_list>>

Skip(code, call, newcache, newclock) ==
    /\ log' = [log EXCEPT ![code] = [call |-> call, err |-> TRUE]]
    /\ cache' = newcache
    /\ clock' = newclock
    /\ idx' = idx + 1
    /\ pc' = pc
    /\ UNCHANGED <<stage1_list, stage2_list>>

\* the length check and the filter on df, then the next code
Screen(code, df, call, newcache, newclock) ==
    /\ log' = [log EXCEPT ![code] = [call |-> call, err |-> compute_raises(df)]]
    /\ cache' = newcache
    /\ clock' = newclock
    /\ idx' = idx + 1
    /\ pc' = pc
    /\ stage1_list' = IF compute_raises(df) THEN stage1_list
                      ELSE stage1_after(code, df, prog)
    /\ stage2_list' = IF compute_raises(df) THEN stage2_list
                      ELSE stage2_after(code, df, prog)

\* an entry of exactly 3600 seconds still counted as young
is_fresh_le(stamp, now) == now - stamp <= FRESH_SECONDS

\* the cached pair is young enough to be used
is_fresh(stamp, now) == now - stamp < FRESH_SECONDS

\* what a provider call for the code can yield
Fetched(code) == {"raise", "empty"} \cup Market(code)

\* one pass of the loop body of generate_final_report
ProcessStandalone ==
    /\ pc = "scan"
    /\ prog = "standalone"
    /\ idx <= NumTickers
    /\ LET code == idx
           e == cache[code]
           t == clock + FetchSecs
       IN  IF e.shape = "bare"
           THEN Skip(code, "none", cache, clock)
           ELSE IF e.shape = "pair" /\ is_fresh(e.stamp, clock)
           THEN Screen(code, Bars(e.df), "none", cache, clock)
           ELSE \E r \in Fetched(code) :
                  IF r = "raise" THEN Skip(code, "raise", cache, t)
                  ELSE IF r = "empty" THEN Screen(code, <<>>, "empty", cache, t)
                  ELSE Screen(code, Pool(r), "ok",
                              [cache EXCEPT ![code] = PairEntry(Frame(r), t)], t)
    /\ UNCHANGED <<prog, file, saves, reported, ext, runs, df_in, universe, out, pool_vars>>

\* the last row of the cached frame is older than today
last_row_old(stamp, now) == DateOf(stamp) < DateOf(now)

\* one pass of the loop body of run_scanner_final
ProcessAI ==
    /\ pc = "scan"
    /\ prog = "ai"
    /\ idx <= NumTickers
    /\ LET code == idx
           e == cache[code]
           t == clock + FetchSecs
       IN  IF e.shape = "pair" \/ (e.shape = "bare" /\ Bars(e.df) = <<>>)
           THEN Skip(code, "none", cache, clock)
           ELSE IF e.shape = "bare" /\ last_row_old(e.stamp, clock)
           THEN \E r \in {"raise", "empty", "rows"} :
                  IF r = "raise" THEN Skip(code, "raise", cache, t)
                  ELSE IF r = "empty" THEN Screen(code, Bars(e.df), "empty", cache, t)
                  ELSE LET fr == ConcatTail(e.df, <<NewBar>>)
                       IN  Screen(code, Bars(fr), "ok",
                                  [cache EXCEPT ![code] = BareEntry(fr, t)], t)
           ELSE IF e.shape = "bare"
           THEN Screen(code, Bars(e.df), "none", cache, clock)
           ELSE \E r \in Fetched(code) :
                  IF r = "raise" THEN Skip(code, "raise", cache, t)
                  ELSE IF r = "empty"
                  THEN Screen(code, <<>>, "empty",
                              [cache EXCEPT ![code] = BareEntry(EmptyFrame, t)], t)
                  ELSE Screen(code, Pool(r), "ok",
                              [cache EXCEPT ![code] = BareEntry(Frame(r), t)], t)
    /\ UNCHANGED <<prog, file, saves, reported, ext, runs, df_in, universe, out, pool_vars>>

\* the process is terminated between two tickers
Interrupt ==
    /\ pc = "scan"
    /\ pc' = "killed"
    /\ UNCHANGED <<prog, file, cache, idx, stage1_list, stage2_list, clock, log,
                   saves, reported, ext, runs, df_in, universe, out, pool_vars>>

\* with open(CACHE_FILE, 'wb') as f: pickle.dump(cache, f)
SaveCache ==
    /\ pc = "scan"
    /\ idx > NumTickers
    /\ \/ /\ file' = [kind |-> "ok", map |-> cache]     \* written and closed
          /\ saves' = saves + 1
          /\ pc' = "report"
       \/ /\ file' = file                               \* open() raises
          /\ saves' = saves
          /\ pc' = "aborted"
       \/ /\ file' = [kind |-> "corrupt"]               \* truncated, then dump raises
          /\ saves' = saves
          /\ pc' = "aborted"
       \/ /\ file' = [kind |-> "corrupt"]               \* truncated, then the process dies
          /\ saves' = saves
          /\ pc' = "killed"
    /\ UNCHANGED <<prog, cache, idx, stage1_list, stage2_list, clock, log,
                   reported, ext, runs, df_in, universe, out, pool_vars>>

\* the reports are produced ahead of the dump
AtReportsEarly == pc = "scan" /\ idx > NumTickers

\* the statements after the dump of the cache
AtReports == pc = "report"

\* Report_<date>.csv and Report_<date>.txt are written
WriteReports ==
    /\ AtReports
    /\ prog = "standalone"
    /\ ext' = TRUE
    /\ \/ pc' = "done" /\ reported' = TRUE /\ out' = "complete"
       \/ pc' = "aborted" /\ reported' = FALSE /\ out' = out    \* a write raises
    /\ UNCHANGED <<prog, file, cache, idx, stage1_list, stage2_list, clock, log,
                   saves, runs, df_in, universe, pool_vars>>

\* no first-stage record: the AI scanner prints that and returns
NoCandidates ==
    /\ AtReports
    /\ prog = "ai"
    /\ stage1_list = <<>>
    /\ pc' = "done"
    /\ out' = "none_found"
    /\ UNCHANGED <<prog, file, cache, idx, stage1_list, stage2_list, clock, log,
                   saves, reported, ext, runs, df_in, universe, pool_vars>>

\* call_gemini twice: a failure comes back as text
CallGemini ==
    /\ AtReports
    /\ prog = "ai"
    /\ stage1_list # <<>>
    /\ ext' = TRUE
    /\ pc' = "mail"
    /\ UNCHANGED <<prog, file, cache, idx, stage1_list, stage2_list, clock, log,
                   saves, reported, runs, df_in, universe, out, pool_vars>>

\* send_report_email: a failure is printed
SendMail ==
    /\ pc = "mail"
    /\ \E sent \in BOOLEAN : reported' = sent
    /\ pc' = "done"
    /\ UNCHANGED <<prog, file, cache, idx, stage1_list, stage2_list, clock, log,
                   saves, ext, runs, df_in, universe, out, pool_vars>>

Next ==
    \/ StartRun
    \/ ProcessStandalone
    \/ ProcessAI
    \/ Interrupt
    \/ SaveCache
    \/ WriteReports
    \/ NoCandidates
    \/ CallGemini
    \/ SendMail

Spec == Init /\ [][Next]_vars

-----------------------------------------------------------------------------
(* The filter exercised alone: one code, whose series the provider draws    *)
(* from Family, goes through the length check and the filter.              *)

FilterInit ==
    /\ prog = "standalone"
    /\ pc = "filter"
    /\ file = [kind |-> "absent"]
    /\ cache = EmptyCache
    /\ idx = 1
    /\ stage1_list = <<>>
    /\ stage2_list = <<>>
    /\ clock = StartClock
    /\ log = NoLog
    /\ saves = 0
    /\ reported = FALSE
    /\ ext = FALSE
    /\ runs = 1
    /\ df_in \in Family
    /\ universe = "present"
    /\ out = "start"
    /\ futures = NoFutures
    /\ results = <<>>
    /\ error_counter = NoErrors

FilterScan ==
    /\ pc = "filter"
    /\ idx = 1
    /\ Screen(idx, df_in, "ok", cache, clock)
    /\ UNCHANGED <<prog, file, saves, reported, ext, runs, df_in, universe, out, pool_vars>>

FilterNext == FilterScan

\* the series has gone through the loop body
Filtered == pc = "filter" /\ idx > 1

FilterSpec == FilterInit /\ [][FilterNext]_vars

-----------------------------------------------------------------------------
(* morita_screening_final.py: check_stock runs on the threads of a          *)
(* ThreadPoolExecutor and main collects the futures with as_completed.     *)

\* what safe_download returns for a code: the data is fixed for a run
PoolSeries(code) ==
    CASE code % 4 = 1 ->
           MkSeries(WINDOW_DAYS, 10, 1, [c |-> 10, l |-> 10], 11, <<300, 500>>)
      [] code % 4 = 2 -> <<>>
      [] code % 4 = 3 ->
           MkSeries(WINDOW_DAYS, 10, 1, [c |-> 10, l |-> 10], 10, <<100, 100>>)
      [] OTHER -> Pool("BAD")

\* close_25.between(low_25 * 0.9, low_25 * 1.1).all()
\* (a close is never below the low of its window, so the lower comparison
\* is far from a tie and the rounding of low_25 * 0.9 cannot change it)
between_all(df) ==
    \A i \in 1..Len(LastN(df, 25)) :
        /\ 10 * LastN(df, 25)[i].c >= 9 * SeqMin(Col(LastN(df, 25), "l"))
        /\ LeProduct(LastN(df, 25)[i].c, SeqMin(Col(LastN(df, 25), "l")), 110)

\* check_stock after the download: <<result, error>>, 0 and "" for None
check_stock(code, df) ==
    IF df = <<>> THEN [result |-> 0, error |-> "empty"]
    ELSE IF \E i \in 1..Len(df) : ~({"o", "l", "c", "v"} \subseteq DOMAIN df[i])
    THEN [result |-> 0, error |-> "columns"]
    ELSE IF Len(df) < 25 THEN [result |-> 0, error |-> "short"]
    ELSE IF df[Len(df)].c > PRICE_LIMIT THEN [result |-> 0, error |-> "price"]
    ELSE IF ~between_all(df) THEN [result |-> 0, error |-> ""]
    ELSE IF ~GeProduct(df[Len(df)].c, SeqMin(Col(LastN(df, 25), "l")), 110)
    THEN [result |-> 0, error |-> ""]
    ELSE IF ~(/\ GeMeanTimes(df[Len(df)].v, SeqSum(Col(LastN(df, 25), "v")), 25, 200)
              /\ GeMeanTimes(df[Len(df) - 1].v, SeqSum(Col(LastN(df, 25), "v")), 25, 200))
    THEN [result |-> 0, error |-> ""]
    ELSE [result |-> code, error |-> ""]

PoolInit ==
    /\ prog = "screening_final"
    /\ pc = "submit"
    /\ idx = 1
    /\ file = [kind |-> "absent"]
    /\ cache = EmptyCache
    /\ stage1_list = <<>>
    /\ stage2_list = <<>>
    /\ clock = StartClock
    /\ log = NoLog
    /\ saves = 0
    /\ reported = FALSE
    /\ ext = FALSE
    /\ runs = 1
    /\ df_in = <<>>
    /\ universe = "present"
    /\ out = "start"
    /\ futures = NoFutures
    /\ results = <<>>
    /\ error_counter = NoErrors

\* executor.submit(check_stock, code), for the codes in order
Submit ==
    /\ pc = "submit"
    /\ idx <= NumPoolCodes
    /\ futures' = [futures EXCEPT ![idx] = "queued"]
    /\ idx' = idx + 1
    /\ pc' = IF idx = NumPoolCodes THEN "collect" ELSE "submit"
    /\ UNCHANGED <<prog, results, error_counter, scanner_vars>>

\* an idle thread takes the oldest queued call
StartWork(code) ==
    /\ futures[code] = "queued"
    /\ \A c \in PoolCodes : c < code => futures[c] # "queued"
    /\ Cardinality({c \in PoolCodes : futures[c] = "running"}) < MAX_WORKERS
    /\ futures' = [futures EXCEPT ![code] = "running"]
    /\ UNCHANGED <<prog, pc, idx, results, error_counter, scanner_vars>>

\* check_stock returns on its thread
FinishWork(code) ==
    /\ futures[code] = "running"
    /\ futures' = [futures EXCEPT ![code] = "finished"]
    /\ UNCHANGED <<prog, pc, idx, results, error_counter, scanner_vars>>

\* the futures as_completed can yield next: any that has finished
completed == {c \in PoolCodes : futures[c] = "finished"}

\* one pass of the loop over as_completed(futures)
Collect(code) ==
    /\ pc = "collect"
    /\ code \in completed
    /\ futures' = [futures EXCEPT ![code] = "yielded"]
    /\ LET r == check_stock(code, PoolSeries(code))
       IN  IF r.error # ""
           THEN /\ error_counter' = [error_counter EXCEPT ![r.error] = @ + 1]
                /\ results' = results
           ELSE IF r.result # 0
           THEN /\ results' = Append(results, r.result)
                /\ error_counter' = error_counter
           ELSE UNCHANGED <<results, error_counter>>
    /\ UNCHANGED <<prog, pc, idx, scanner_vars>>

\* every future has been yielded: the with block ends and the hits are printed
PoolDone ==
    /\ pc = "collect"
    /\ \A c \in PoolCodes : futures[c] = "yielded"
    /\ pc' = "done"
    /\ UNCHANGED <<prog, idx, pool_vars, scanner_vars>>

PoolNext ==
    \/ Submit
    \/ \E code \in PoolCodes : StartWork(code)
    \/ \E code \in PoolCodes : FinishWork(code)
    \/ \E code \in PoolCodes : Collect(code)
    \/ PoolDone

PoolSpec == PoolInit /\ [][PoolNext]_vars

-----------------------------------------------------------------------------
(* Claims about the filter *)

\* rows of df the window holds
WinRows(df) == (Len(df) - WINDOW_DAYS + 1)..Len(df)

\* the least low of the window
WinLow(df) ==
    CHOOSE m \in {df[i].l : i \in WinRows(df)} : \A i \in WinRows(df) : m <= df[i].l

RECURSIVE RowSum(_, _)
RowSum(df, rows) ==
    IF rows = {} THEN 0
    ELSE LET i == CHOOSE j \in rows : TRUE
         IN  df[i].v + RowSum(df, rows \ {i})

C1_CondRange(df) ==
    \A i \in WinRows(df) :
        i <= Len(df) - 3 => LeProduct(df[i].c, WinLow(df), RANGE_FACTOR_S1)

C1_CondRebound(df) == GeProduct(df[Len(df)].c, WinLow(df), UP_FROM_LOW_RATE)

C1_CondVolume(df) ==
    /\ df[Len(df)].v * WINDOW_DAYS >= 2 * RowSum(df, WinRows(df))
    /\ df[Len(df) - 1].v * WINDOW_DAYS * 2 >= 3 * RowSum(df, WinRows(df))

C1_CondPrice(df) == df[Len(df)].c * 100 <= PRICE_LIMIT_YEN

C2_Stage2ImpliesStage1 ==
    (Len(df_in) >= WINDOW_DAYS + 1 /\ stage2_hit(df_in)) => stage1_hit(df_in)

\* C2 amended: whenever the second-stage predicate holds on a series of at
\* least 26 bars, the range condition and the volume spike of the first
\* stage hold (the rebound and the price ceiling need not).
C2_Stage2ImpliesRangeAndVolume ==
    (Len(df_in) >= WINDOW_DAYS + 1 /\ stage2_hit(df_in)) =>
        (is_range_s1(df_in) /\ high_vol_s1(df_in))

\* C2 witness: a scanned series that satisfies the second-stage predicate but
\* has no rebound, and so gets no record
C2_Witness ==
    /\ Filtered
    /\ Len(df_in) >= WINDOW_DAYS + 1
    /\ stage2_hit(df_in)
    /\ ~up_from_low(df_in)
    /\ stage1_list = <<>>

-----------------------------------------------------------------------------
(* Claims about the runs *)

HasRecord(list, code) == \E k \in 1..Len(list) : list[k].code = code

\* the entry has the shape the running program unpacks
ExpectedShape(e) ==
    \/ prog = "standalone" /\ e.shape = "pair"
    \/ prog = "ai" /\ e.shape = "bare" /\ Bars(e.df) # <<>>

\* C3: after each ticker, every record of the second-stage list is also in
\* the first-stage list.
C3_Stage2WithinStage1 ==
    \A k \in 1..Len(stage2_list) :
        \E j \in 1..Len(stage1_list) : stage1_list[j] = stage2_list[k]

\* C3 witness: a run holds a second-stage record and a first-stage-only one
C3_Witness ==
    /\ pc = "scan"
    /\ Len(stage2_list) = 1
    /\ Len(stage1_list) = 2

\* C4 as claimed: a ticker whose entry was written less than 3600 s ago is
\* processed without a provider call and its entry stays; one whose entry was
\* written more than 3600 s ago is fetched.
C4_FreshBySeconds ==
    [][(pc = "scan" /\ idx <= NumTickers /\ idx' = idx + 1
          /\ ExpectedShape(cache[idx]))
        => /\ (clock - cache[idx].stamp < FRESH_SECONDS)
                => (log'[idx].call = "none" /\ cache'[idx] = cache[idx])
           /\ (clock - cache[idx].stamp > FRESH_SECONDS)
                => log'[idx].call # "none"]_vars

\* C5 as claimed: a ticker whose provider call failed or came back empty has
\* no record in either list.
C5_FailedFetchSkips ==
    \A code \in Codes :
        log[code].call \in {"raise", "empty"}
            => (~HasRecord(stage1_list, code) /\ ~HasRecord(stage2_list, code))

\* C6 as claimed: when the process is terminated, the file is not torn and
\* holds the entry of every ticker fetched in the run so far.
C6_FileReflectsFetched ==
    pc = "killed" =>
        /\ file.kind # "corrupt"
        /\ \A code \in Codes :
               log[code].call = "ok"
                   => (file.kind = "ok" /\ file.map[code] = cache[code])

\* C7: a run saves the cache at most once; once an externally fallible step
\* (report files, LLM call, mail) has begun, and in every run that ends
\* normally, the cache has been saved once and the file holds the in-memory
\* cache, the series fetched in this run included.
C7_SaveBeforeExternal ==
    /\ saves <= 1
    /\ (ext \/ pc \in {"report", "mail", "done"})
          => (saves = 1 /\ file = [kind |-> "ok", map |-> cache])

\* C7 witness: the report write failed after a fetch, and the file holds the
\* fetched entry
C7_Witness ==
    /\ ext
    /\ pc = "aborted"
    /\ \E code \in Codes :
          log[code].call = "ok" /\ file.kind = "ok" /\ file.map[code] = cache[code]

\* C8 as claimed: a program started on a corrupt cache file does not raise:
\* it starts the scan with an empty cache.
C8_CorruptLoadsEmpty ==
    [][(pc \in Ended /\ runs' = runs + 1 /\ file.kind = "corrupt")
        => (pc' = "scan" /\ cache' = EmptyCache)]_vars

\* C9 as claimed: a failure of the save does not abort the run.
C9_SaveFailureNotFatal ==
    [][(pc = "scan" /\ idx > NumTickers /\ pc' # "scan" /\ pc' # "killed")
        => pc' = "report"]_vars

\* C10: a ticker whose processing raised has no record, the exception does
\* not end the run, and the loop goes through the codes in order, so a run
\* that gets past the loop has processed every code.
C10_ErrorsSkipTicker ==
    /\ \A code \in Codes :
          log[code].err
              => (~HasRecord(stage1_list, code) /\ ~HasRecord(stage2_list, code))
    /\ (pc = "aborted" /\ \E code \in Codes : log[code].err) => idx > NumTickers
    /\ pc \in {"scan", "report", "mail", "done"}
          => \A code \in Codes : (code < idx) <=> (log[code].call # "pending")
    /\ pc \in {"report", "mail", "done"} => idx = NumTickers + 1

\* C10 witness: the first code raised, the second was classified, the run ended
C10_Witness ==
    /\ pc = "done"
    /\ log[1].err
    /\ HasRecord(stage1_list, 2)

\* C11: a run of generate_final_report that finds the universe file missing
\* prints the error and returns: no ticker is fetched, nothing is saved, no
\* report is written and the cache file stays as it was; a run that scanned
\* to the end, with or without candidates, prints the completion line and
\* writes its report, so the two outcomes differ.
C11_MissingUniverseFails ==
    /\ []((prog = "standalone" /\ universe = "missing") =>
            /\ pc = "failed"
            /\ out = "error"
            /\ \A code \in Codes : log[code].call = "pending"
            /\ stage1_list = <<>> /\ stage2_list = <<>>
            /\ saves = 0 /\ ~ext /\ ~reported)
    /\ []((prog = "standalone" /\ pc = "done") =>
            (universe = "present" /\ out = "complete" /\ reported /\ saves = 1))
    /\ [][(prog' = "standalone" /\ runs' = runs + 1 /\ universe' = "missing")
            => file' = file]_vars

\* C11 witness: the second run found no universe file and left the cache
\* file of the first run in place
C11_Witness ==
    /\ prog = "standalone"
    /\ universe = "missing"
    /\ pc = "failed"
    /\ runs = 2
    /\ file.kind = "ok"

\* C12: a series of exactly WINDOW_DAYS bars gets no record, whatever the
\* filter would say of it; a series of exactly WINDOW_DAYS + 1 bars gets a
\* record exactly when the filter accepts it.
C12_WindowBoundary ==
    Filtered =>
        /\ Len(df_in) = WINDOW_DAYS => (stage1_list = <<>> /\ stage2_list = <<>>)
        /\ Len(df_in) = WINDOW_DAYS + 1 =>
              /\ HasRecord(stage1_list, 1) <=> stage1_hit(df_in)
              /\ HasRecord(stage2_list, 1) <=> (stage1_hit(df_in) /\ stage2_hit(df_in))

\* C12 witness: a series of 25 bars that the filter would accept has been
\* scanned and has no record
C12_Witness ==
    /\ Filtered
    /\ Len(df_in) = WINDOW_DAYS
    /\ stage1_hit(df_in)
    /\ stage1_list = <<>>

\* C13 as claimed: a value exactly at a threshold never causes rejection: a
\* series whose other conditions hold and whose close is exactly 1.10 times
\* the window low gets its record, and so does one whose close times 100 is
\* exactly PRICE_LIMIT_YEN.
C13_ThresholdsInclusive ==
    (Filtered /\ Len(df_in) >= WINDOW_DAYS + 1
       /\ C1_CondRange(df_in) /\ C1_CondVolume(df_in)) =>
        /\ (/\ 100 * df_in[Len(df_in)].c = UP_FROM_LOW_RATE * WinLow(df_in)
            /\ C1_CondPrice(df_in))
              => HasRecord(stage1_list, 1)
        /\ (/\ df_in[Len(df_in)].c * LOT_SIZE = PRICE_LIMIT_YEN
            /\ C1_CondRebound(df_in))
              => HasRecord(stage1_list, 1)

\* C14 as claimed: the results are collected in the order of the universe:
\* of two matching codes the one that comes first in the universe has its
\* record first in the result list, under every scheduling of the workers.
C14_ResultsInUniverseOrder ==
    \A i \in 1..Len(results) : \A j \in 1..Len(results) :
        i < j => results[i] < results[j]

\* C15 as claimed: the in-memory cache holds an entry for a ticker only if a
\* fetch for it returned a non-empty series, so no entry holds an empty
\* series; a fetch that failed or came back empty leaves the cache as it was.
C15_EntryOnlyAfterNonEmptyFetch ==
    /\ [](pc = "scan" =>
            \A code \in Codes :
                cache[code].shape # "none" => Bars(cache[code].df) # <<>>)
    /\ [][(pc = "scan" /\ idx <= NumTickers /\ idx' = idx + 1
             /\ log'[idx].call \in {"raise", "empty"})
            => cache' = cache]_vars

\* C16: in the standalone scanner, processing a ticker whose entry is less
\* than 3600 s old makes no provider call and leaves the cache, the entry's
\* series and timestamp included, as it was; an entry that has been hit is
\* still stamped with the time of its fetch, and once it is 3600 s old or
\* older the ticker is fetched again.
C16_HitKeepsStamp ==
    [][(prog = "standalone" /\ pc = "scan" /\ idx <= NumTickers /\ idx' = idx + 1
          /\ cache[idx].shape = "pair")
        => /\ (clock - cache[idx].stamp < FRESH_SECONDS)
                => (log'[idx].call = "none" /\ cache' = cache /\ clock' = clock)
           /\ (clock - cache[idx].stamp >= FRESH_SECONDS)
                => log'[idx].call # "none"]_vars

\* C16 witness: an entry fetched in an earlier run has been hit, and still
\* carries the stamp of that fetch
C16_Witness ==
    /\ prog = "standalone"
    /\ pc = "scan"
    /\ runs = 2
    /\ log[1].call = "none"
    /\ cache[1].shape = "pair"
    /\ cache[1].stamp = StartClock + FetchSecs
    /\ clock > cache[1].stamp

\* C17 as claimed: whichever of the two programs wrote the cache file, every
\* entry of the cache a run works on has the shape that run unpacks (a pair
\* for the standalone scanner, a bare series for the AI scanner), and no
\* ticker with an entry is skipped without a provider call.
C17_SharedCacheShape ==
    pc = "scan" =>
        /\ \A code \in Codes :
              cache[code].shape \in
                  {"none", IF prog = "standalone" THEN "pair" ELSE "bare"}
        /\ \A code \in Codes :
              ~(log[code].err /\ log[code].call = "none")

\* C18: every first-stage record of a series with positive prices has its
\* midpoint limit price strictly below its conservative limit price and
\* between the window low and the close: low_window <= target2 < target1
\* and target2 <= close (prices in hundredths).
C18_Target2BelowTarget1 ==
    (Filtered /\ df_in[Len(df_in)].c > 0 /\ WinLow(df_in) > 0) =>
        \A k \in 1..Len(stage1_list) :
            /\ 100 * WinLow(df_in) <= stage1_list[k].target2
            /\ stage1_list[k].target2 < stage1_list[k].target1
            /\ stage1_list[k].target2 <= 100 * stage1_list[k].close
            /\ stage1_list[k].target2 = 50 * (WinLow(df_in) + df_in[Len(df_in)].c)
            /\ stage1_list[k].target1 >= 97 * df_in[Len(df_in)].c
            /\ stage1_list[k].target1 >= 100 * df_in[Len(df_in)].o

\* C18 witness: a record whose conservative limit is today's open, which
\* lies above 0.97 of the close, with the midpoint limit below it
C18_Witness ==
    /\ Filtered
    /\ Len(stage1_list) = 1
    /\ stage1_list[1].target1 = 100 * df_in[Len(df_in)].o
    /\ stage1_list[1].target1 > 97 * stage1_list[1].close
    /\ stage1_list[1].target2 < stage1_list[1].target1

====
